---- MODULE Spec2Model ----
(***************************************************************************)
(* LeadFlow24 backend (server.js): the relational store, the email         *)
(* notifier and the HTTP handlers, one action per handler.                 *)
(*                                                                         *)
(* Tables are sequences of rows; a row's id (a fresh uuidv4 in the code)   *)
(* is its position in its table, which is fresh because no handler ever    *)
(* deletes a row.  A request-body member is a JS value: undefined (the     *)
(* member is absent), null, a string or a number.  The store binds         *)
(* undefined as NULL.  Email addresses are sequences of characters, the    *)
(* empty sequence being the absent/empty (falsy) email.  The clock counts  *)
(* ticks, WeekTicks of them to a week (7 days); timestamps are read in the *)
(* server's own time zone (UTC).  process.env is fixed when the process    *)
(* starts.                                                                 *)
(***************************************************************************)
EXTENDS Integers, Sequences, FiniteSets, TLC

VARIABLES subscribers, trial_signups, clients, leads, lead_activity,
          capture_pages, email_log, res, now, env, awaiting

vars == <<subscribers, trial_signups, clients, leads, lead_activity,
          capture_pages, email_log, res, now, env, awaiting>>

store == <<subscribers, trial_signups, clients, leads, lead_activity,
           capture_pages, email_log>>

(* ---------------------------- bounds ----------------------------------- *)
\* rows the append-only email log may hold
MaxLog == 2
\* rows the leads table may hold
MaxLeads == 3
\* "status_updated" rows the append-only lead activity log may hold
MaxUpdates == 1
\* ticks the clock may reach
MaxNow == 7

(* ---------------------------- JS values -------------------------------- *)
Undefined == [t |-> "undefined", s |-> "", n |-> 0]
Null == [t |-> "null", s |-> "", n |-> 0]
Str(x) == [t |-> "str", s |-> x, n |-> 0]
Num(k) == [t |-> "num", s |-> "", n |-> k]

\* JS truthiness of a value: `if (v)`, `!v`, `v || d`
Truthy(v) == \/ v.t = "str" /\ v.s # ""
             \/ v.t = "num" /\ v.n # 0

\* `v || d`
OrElse(v, d) == IF Truthy(v) THEN v ELSE d

\* a value bound to a statement parameter: undefined is stored as NULL
Bind(v) == IF v = Undefined THEN Null ELSE v

\* JSON.stringify of an object literal: members whose value is undefined are left out
JSONStringify(obj) ==
  [k \in {x \in DOMAIN obj : obj[x] # Undefined} |-> obj[k]]

(* ---------------------------- emails ----------------------------------- *)
Lower(c) == IF c = "A" THEN "a" ELSE IF c = "B" THEN "b" ELSE c

\* String.prototype.toLowerCase
ToLowerCase(e) == [i \in 1..Len(e) |-> Lower(e[i])]

RECURSIVE TrimStart(_)
TrimStart(e) == IF e # <<>> /\ Head(e) = " " THEN TrimStart(Tail(e)) ELSE e

RECURSIVE TrimEnd(_)
TrimEnd(e) ==
  IF e # <<>> /\ e[Len(e)] = " " THEN TrimEnd(SubSeq(e, 1, Len(e) - 1)) ELSE e

\* String.prototype.trim
Trim(e) == TrimEnd(TrimStart(e))

\* email.toLowerCase().trim()
NormEmail(e) == Trim(ToLowerCase(e))

\* process.env.NOTIFICATION_EMAIL || 'luke@leadflow24.com'
NotificationEmail == <<"l", "u", "k", "e">>

(* ---------------------------- inputs ----------------------------------- *)
\* request emails: two spellings of one address, another address, none
RawEmails == {<<"a">>, <<" ", "A", " ">>, <<"b">>}
EmailInputs == RawEmails \cup {<<>>}
ClientEmails == {<<"m">>}
Slugs == {"hvac-edmonton-demo", "plumbing-calgary"}
\* a required text member is either absent or given
Field(x) == {Undefined, Str(x)}

(* ---------------------------- email notifier --------------------------- *)
\* getEmailTemplate: the table of all four templates is built on every call,
\* and internal_notification's html evaluates data.type.toUpperCase()
TemplateNames ==
  {"trial_welcome", "new_lead_notification", "internal_notification", "weekly_report"}

GetEmailTemplate(type, data) ==
  IF data.type.t # "str" THEN [kind |-> "throw"]
  ELSE IF type \in TemplateNames THEN [kind |-> "ok", name |-> type]
  ELSE [kind |-> "null"]

\* a notifier that logs nothing when the transport fails
SendEmailUnlogged(log, to, subject, ok) ==
  IF ok
  THEN Append(log, [recipient |-> to, subject |-> subject, template |-> "custom",
                    status |-> "sent"])
  ELSE log

\* sendEmail: one email_log row per call, "sent" or "failed"
SendEmail(log, to, subject, ok) ==
  Append(log, [recipient |-> to, subject |-> subject, template |-> "custom",
               status |-> IF ok THEN "sent" ELSE "failed"])

(* ---------------------------- environment ------------------------------ *)
\* process.env.WHOP_WEBHOOK_SECRET and process.env.WEBHOOK_SECRET: unset,
\* set to the empty string, or set to a secret
SecretInputs == {Undefined, Str(""), Str("s3cret")}

\* an environment in which neither secret is set
NoSecrets == [WHOP_WEBHOOK_SECRET |-> Undefined, WEBHOOK_SECRET |-> Undefined]

\* one call of sendEmail: the row is logged and the call returns the
\* transport's info when the message was accepted, null from the catch when
\* it was not
SendEmailCall(to, subject, ok) ==
  /\ email_log' = SendEmail(email_log, to, subject, ok)
  /\ res' = [op |-> "sendEmail", status |-> 0, id |-> 0,
             returned |-> IF ok THEN "info" ELSE "null"]
  /\ Len(email_log') <= MaxLog
  /\ UNCHANGED <<subscribers, trial_signups, clients, leads, lead_activity,
                 capture_pages>>

\* one call of getEmailTemplate: what it returns (a template, nothing) or
\* that it throws
GetEmailTemplateCall(type, data) ==
  /\ res' = [op |-> "getEmailTemplate", status |-> 0, id |-> 0, name |-> type,
             returned |-> GetEmailTemplate(type, data).kind]
  /\ UNCHANGED store

(* ---------------------------- store helpers ---------------------------- *)
HasEmail(table, e) == \E i \in 1..Len(table) : table[i].email = e

\* a plain INSERT that never ignores a repeated email
InsertSubscriberAlways(table, e, source) ==
  Append(table, [email |-> e, source |-> source, status |-> "active"])

\* INSERT OR IGNORE INTO subscribers: email is UNIQUE
InsertSubscriberOrIgnore(table, e, source) ==
  IF HasEmail(table, e) THEN table
  ELSE Append(table, [email |-> e, source |-> source, status |-> "active"])

Init ==
  /\ subscribers = <<>>
  /\ trial_signups = <<>>
  /\ clients = <<>>
  /\ leads = <<>>
  /\ lead_activity = <<>>
  /\ capture_pages = <<>>
  /\ email_log = <<>>
  /\ res = [op |-> "none", status |-> 0, id |-> 0]
  /\ now = 0
  /\ awaiting = {}
  /\ env = NoSecrets

(* ---------------------------- POST /api/subscribe ---------------------- *)
\* the handler without its `if (!email)` test
SubscribeUnvalidated(email, source) ==
  LET tpl == GetEmailTemplate("internal_notification",
                              [type |-> Str("New Subscriber")])
  IN /\ subscribers' =
          InsertSubscriberOrIgnore(subscribers, NormEmail(email),
                                   OrElse(source, Str("website")))
     /\ IF tpl.kind = "ok"
        THEN /\ \E ok \in BOOLEAN :
                  email_log' = SendEmail(email_log, NotificationEmail,
                                         "New subscriber", ok)
             /\ res' = [op |-> "subscribe", status |-> 200, id |-> 0]
        ELSE /\ email_log' = email_log
             /\ res' = [op |-> "subscribe", status |-> 500, id |-> 0]
     /\ Len(email_log') <= MaxLog
     /\ UNCHANGED <<trial_signups, clients, leads, lead_activity, capture_pages>>

Subscribe(email, source) ==
  IF email = <<>>
  THEN /\ res' = [op |-> "subscribe", status |-> 400, id |-> 0]
       /\ UNCHANGED store
  ELSE LET tpl == GetEmailTemplate("internal_notification",
                                   [type |-> Str("New Subscriber")])
       IN /\ subscribers' =
               InsertSubscriberOrIgnore(subscribers, NormEmail(email),
                                        OrElse(source, Str("website")))
          /\ IF tpl.kind = "ok"
             THEN /\ \E ok \in BOOLEAN :
                       email_log' = SendEmail(email_log, NotificationEmail,
                                              "New subscriber", ok)
                  /\ res' = [op |-> "subscribe", status |-> 200, id |-> 0]
             ELSE /\ email_log' = email_log
                  /\ res' = [op |-> "subscribe", status |-> 500, id |-> 0]
          /\ Len(email_log') <= MaxLog
          /\ UNCHANGED <<trial_signups, clients, leads, lead_activity, capture_pages>>

(* ---------------------------- POST /api/trial-signup ------------------- *)
\* INSERT INTO trial_signups: last_name, business_name, industry, city are
\* NOT NULL (checked first), email is UNIQUE
InsertTrial(table, row) ==
  IF Null \in {row.first_name, row.last_name, row.business_name, row.phone,
               row.industry, row.city}
  THEN [err |-> "NOT NULL constraint failed", table |-> table]
  ELSE IF HasEmail(table, row.email)
  THEN [err |-> "UNIQUE constraint failed", table |-> table]
  ELSE [err |-> "", table |-> Append(table, row)]

TrialSignup(firstName, lastName, businessName, email, phone, industry, city, source) ==
  IF ~Truthy(firstName) \/ email = <<>> \/ ~Truthy(phone)
  THEN /\ res' = [op |-> "trial-signup", status |-> 400, id |-> 0]
       /\ UNCHANGED store
  ELSE
    LET id == Len(trial_signups) + 1
        ins == InsertTrial(trial_signups,
                 [first_name |-> Bind(firstName), last_name |-> Bind(lastName),
                  business_name |-> Bind(businessName), email |-> NormEmail(email),
                  phone |-> Bind(phone), industry |-> Bind(industry),
                  city |-> Bind(city),
                  source |-> OrElse(source, Str("free_trial_page")),
                  status |-> "new"])
        welcomeEmail == GetEmailTemplate("trial_welcome", [type |-> Undefined])
        internal == GetEmailTemplate("internal_notification",
                                     [type |-> Str("Trial Signup")])
        \* if (welcomeEmail) await sendEmail(email, ...)
        log1(ok) == IF welcomeEmail.kind = "ok"
                    THEN SendEmail(email_log, email, "Welcome to LeadFlow24", ok)
                    ELSE email_log
    IN
    /\ trial_signups' = ins.table
    /\ IF ins.err # ""
       THEN \* catch: 409 when the message includes 'UNIQUE', else 500
            /\ res' = [op |-> "trial-signup",
                       status |-> IF ins.err = "UNIQUE constraint failed"
                                  THEN 409 ELSE 500,
                       id |-> 0]
            /\ UNCHANGED <<subscribers, email_log>>
       ELSE /\ subscribers' = InsertSubscriberOrIgnore(subscribers, NormEmail(email),
                                                       Str("trial_signup"))
            /\ IF welcomeEmail.kind = "throw"
               THEN /\ email_log' = email_log
                    /\ res' = [op |-> "trial-signup", status |-> 500, id |-> 0]
               ELSE IF internal.kind # "ok"
               THEN /\ \E ok1 \in BOOLEAN : email_log' = log1(ok1)
                    /\ res' = [op |-> "trial-signup", status |-> 500, id |-> 0]
               ELSE /\ \E ok1 \in BOOLEAN, ok2 \in BOOLEAN :
                         email_log' = SendEmail(log1(ok1), NotificationEmail,
                                                "NEW TRIAL SIGNUP", ok2)
                    /\ res' = [op |-> "trial-signup", status |-> 200, id |-> id]
    /\ Len(email_log') <= MaxLog
    /\ UNCHANGED <<clients, leads, lead_activity, capture_pages>>

(* ---------------------------- POST /api/admin/clients ------------------ *)
HasToken(table, token) == \E i \in 1..Len(table) : table[i].dashboard_token = token

\* an INSERT INTO a clients table declared without its UNIQUE columns
InsertClientNoUnique(table, row) ==
  IF Null \in {row.business_name, row.contact_name, row.phone, row.industry, row.city}
     \/ row.email = <<>>
  THEN [err |-> "NOT NULL constraint failed", table |-> table]
  ELSE IF row.trial_id # 0 /\ row.trial_id \notin 1..Len(trial_signups)
  THEN [err |-> "FOREIGN KEY constraint failed", table |-> table]
  ELSE [err |-> "", table |-> Append(table, row)]

\* INSERT INTO clients: business_name, contact_name, email, phone, industry,
\* city are NOT NULL, email and dashboard_token are UNIQUE, trial_id references
\* trial_signups(id)
InsertClient(table, row) ==
  IF Null \in {row.business_name, row.contact_name, row.phone, row.industry, row.city}
     \/ row.email = <<>>
  THEN [err |-> "NOT NULL constraint failed", table |-> table]
  ELSE IF HasEmail(table, row.email) \/ HasToken(table, row.dashboard_token)
  THEN [err |-> "UNIQUE constraint failed", table |-> table]
  ELSE IF row.trial_id # 0 /\ row.trial_id \notin 1..Len(trial_signups)
  THEN [err |-> "FOREIGN KEY constraint failed", table |-> table]
  ELSE [err |-> "", table |-> Append(table, row)]

\* the converting UPDATE without its WHERE clause
ConvertTrialAll(table, trial_id) ==
  [i \in 1..Len(table) |-> [table[i] EXCEPT !.status = "converted"]]

\* UPDATE trial_signups SET status = 'converted' WHERE id = ?
ConvertTrial(table, trial_id) ==
  [i \in 1..Len(table) |->
     IF i = trial_id THEN [table[i] EXCEPT !.status = "converted"] ELSE table[i]]

\* the row INSERT INTO clients writes: plan 'starter' at 397, status 'active',
\* a fresh dashboard token, no billing identifiers
NewClient(id, trial_id, business_name, contact_name, email, phone, industry, city) ==
  [trial_id |-> trial_id, business_name |-> Bind(business_name),
   contact_name |-> Bind(contact_name), email |-> email,
   phone |-> Bind(phone), industry |-> Bind(industry),
   city |-> Bind(city), plan |-> "starter", plan_price |-> 397,
   status |-> "active", dashboard_token |-> id,
   whop_membership_id |-> Null, whop_user_id |-> Null]

\* the handler with the token uuidv4() happens to yield
CreateClientWith(dashboardToken, trial_id, business_name, contact_name, email, phone, industry, city) ==
  LET id == Len(clients) + 1
      ins == InsertClient(clients,
               NewClient(dashboardToken, trial_id, business_name, contact_name,
                         email, phone, industry, city))
  IN /\ clients' = ins.table
     /\ IF ins.err # ""
        THEN /\ res' = [op |-> "create-client", status |-> 500, id |-> 0]
             /\ UNCHANGED trial_signups
        ELSE /\ trial_signups' = IF trial_id # 0
                                 THEN ConvertTrial(trial_signups, trial_id)
                                 ELSE trial_signups
             /\ res' = [op |-> "create-client", status |-> 200, id |-> id]
     /\ UNCHANGED <<subscribers, leads, lead_activity, capture_pages, email_log>>

\* the handler when uuidv4() yields a token no client has: the token is
\* written as the number of the row
CreateClient(trial_id, business_name, contact_name, email, phone, industry, city) ==
  CreateClientWith(Len(clients) + 1, trial_id, business_name, contact_name, email,
                   phone, industry, city)

(* ---------------------------- POST /api/admin/capture-pages ------------ *)
HasSlug(table, slug) == \E i \in 1..Len(table) : table[i].slug = slug

\* an INSERT OR REPLACE: a page with the slug is overwritten by the new row
InsertCapturePageOrReplace(table, row) ==
  IF Null \in {row.slug, row.title}
  THEN [err |-> "NOT NULL constraint failed", table |-> table]
  ELSE IF HasSlug(table, row.slug)
  THEN [err |-> "",
        table |-> [i \in 1..Len(table) |->
                     IF table[i].slug = row.slug THEN row ELSE table[i]]]
  ELSE [err |-> "", table |-> Append(table, row)]

\* INSERT INTO capture_pages: slug and title are NOT NULL, slug is UNIQUE,
\* client_id references clients(id)
InsertCapturePage(table, row) ==
  IF Null \in {row.slug, row.title}
  THEN [err |-> "NOT NULL constraint failed", table |-> table]
  ELSE IF HasSlug(table, row.slug)
  THEN [err |-> "UNIQUE constraint failed", table |-> table]
  ELSE IF row.client_id # 0 /\ row.client_id \notin 1..Len(clients)
  THEN [err |-> "FOREIGN KEY constraint failed", table |-> table]
  ELSE [err |-> "", table |-> Append(table, row)]

\* the row INSERT INTO capture_pages writes: status 'active', counters 0
NewCapturePage(client_id, slug, title) ==
  [client_id |-> client_id, slug |-> Bind(slug), title |-> Bind(title),
   status |-> "active", views |-> 0, submissions |-> 0]

CreateCapturePage(client_id, slug, title) ==
  LET id == Len(capture_pages) + 1
      ins == InsertCapturePage(capture_pages, NewCapturePage(client_id, slug, title))
  IN /\ capture_pages' = ins.table
     /\ res' = IF ins.err # ""
               THEN [op |-> "create-capture-page", status |-> 500, id |-> 0]
               ELSE [op |-> "create-capture-page", status |-> 200, id |-> id]
     /\ UNCHANGED <<subscribers, trial_signups, clients, leads, lead_activity,
                    email_log>>

(* ---------------------------- POST /api/leads -------------------------- *)
\* a lookup that ignores the slug and takes the first page
PageClientAny(capture_page) ==
  IF Truthy(capture_page) /\ Len(capture_pages) > 0
  THEN capture_pages[1].client_id ELSE 0

\* SELECT client_id FROM capture_pages WHERE slug = ?  (0 is NULL / no page)
PageClient(capture_page) ==
  IF Truthy(capture_page) /\ HasSlug(capture_pages, capture_page)
  THEN LET i == CHOOSE j \in 1..Len(capture_pages) :
                  capture_pages[j].slug = capture_page
       IN capture_pages[i].client_id
  ELSE 0

\* the counter update without its WHERE clause
BumpSubmissionsAll(table, slug) ==
  [i \in 1..Len(table) |-> [table[i] EXCEPT !.submissions = @ + 1]]

\* UPDATE capture_pages SET submissions = submissions + 1 WHERE slug = ?
BumpSubmissions(table, slug) ==
  [i \in 1..Len(table) |->
     IF table[i].slug = slug
     THEN [table[i] EXCEPT !.submissions = @ + 1] ELSE table[i]]

\* the row INSERT INTO leads writes: status 'new', created_at the current
\* time, the other columns NULL
NewLead(clientId, capture_page, name, phone, source) ==
  [client_id |-> clientId, capture_page |-> Bind(capture_page),
   name |-> name, phone |-> phone,
   source |-> OrElse(source, Str("facebook")), status |-> Str("new"),
   contacted_at |-> Null, booked_at |-> Null, job_value |-> Null,
   notes |-> Null, created_at |-> now]

\* the "created" row INSERT INTO lead_activity writes
CreatedActivity(id, capture_page, source) ==
  [lead_id |-> id, action |-> "created",
   details |-> JSONStringify([source |-> source, capture_page |-> capture_page])]

\* what becomes of the response of POST /api/leads: sent to the caller as it
\* is, or, for a request the automation webhook forwarded, assigned to
\* `response`, never read, and followed by the webhook's acknowledgement
Respond(via, response) ==
  IF via = "zapier" THEN [op |-> "zapier", status |-> 200, id |-> 0]
  ELSE response

\* the handler of POST /api/leads, called directly or through the webhook
LeadCaptureVia(name, phone, capture_page, source, via) ==
  IF ~Truthy(name) \/ ~Truthy(phone)
  THEN /\ res' = Respond(via, [op |-> "leads", status |-> 400, id |-> 0])
       /\ UNCHANGED store
  ELSE
    LET clientId == PageClient(capture_page)
        id == Len(leads) + 1
        leadEmail == GetEmailTemplate("new_lead_notification", [type |-> Undefined])
        internal == GetEmailTemplate("internal_notification",
                                     [type |-> Str("New Lead")])
        \* if (clientId) { client = ...; if (client) await sendEmail(client.email, ...) }
        log1(ok) == IF clientId # 0 /\ clientId \in 1..Len(clients)
                    THEN SendEmail(email_log, clients[clientId].email,
                                   "New Lead", ok)
                    ELSE email_log
    IN
    /\ leads' = Append(leads, NewLead(clientId, capture_page, name, phone, source))
    /\ capture_pages' = IF Truthy(capture_page)
                        THEN BumpSubmissions(capture_pages, capture_page)
                        ELSE capture_pages
    /\ lead_activity' = Append(lead_activity,
                               CreatedActivity(id, capture_page, source))
    /\ IF clientId # 0 /\ clientId \in 1..Len(clients) /\ leadEmail.kind # "ok"
       THEN \* the template call, or .subject of no template, throws
            /\ email_log' = email_log
            /\ res' = Respond(via, [op |-> "leads", status |-> 500, id |-> 0])
       ELSE IF internal.kind # "ok"
       THEN /\ \E ok1 \in BOOLEAN : email_log' = log1(ok1)
            /\ res' = Respond(via, [op |-> "leads", status |-> 500, id |-> 0])
       ELSE /\ \E ok1 \in BOOLEAN, ok2 \in BOOLEAN :
                 email_log' = SendEmail(log1(ok1), NotificationEmail,
                                        "NEW LEAD", ok2)
            /\ res' = Respond(via, [op |-> "leads", status |-> 200, id |-> id])
    /\ Len(email_log') <= MaxLog
    /\ Len(leads') <= MaxLeads
    /\ UNCHANGED <<subscribers, trial_signups, clients>>

LeadCapture(name, phone, capture_page, source) ==
  LeadCaptureVia(name, phone, capture_page, source, "direct")

(* ---------------------------- POST /api/leads, step by step ------------ *)
\* The handler runs without interruption up to an `await sendEmail(...)`;
\* there it yields until the send settles, and other handlers run meanwhile.
\* awaiting holds the captures that wait for a send: the lead, who is being
\* notified ("client" or "operator") and the recipient.

\* the first stretch with the INSERT INTO lead_activity left for later
LeadCaptureStartNoActivity(name, phone, capture_page, source) ==
  IF ~Truthy(name) \/ ~Truthy(phone)
  THEN /\ res' = [op |-> "leads", status |-> 400, id |-> 0]
       /\ UNCHANGED <<store, awaiting>>
  ELSE
    LET clientId == PageClient(capture_page)
        id == Len(leads) + 1
    IN
    /\ leads' = Append(leads, NewLead(clientId, capture_page, name, phone, source))
    /\ capture_pages' = IF Truthy(capture_page)
                        THEN BumpSubmissions(capture_pages, capture_page)
                        ELSE capture_pages
    /\ awaiting' = awaiting \cup {[id |-> id, stage |-> "operator",
                                    to |-> NotificationEmail]}
    /\ Len(leads') <= MaxLeads
    /\ UNCHANGED <<subscribers, trial_signups, clients, lead_activity, email_log, res>>

\* the first stretch: validation, page lookup, the three statements, and the
\* template of the first notification; it ends with a response (400, or 500
\* when a template call throws) or at the first await
LeadCaptureStart(name, phone, capture_page, source) ==
  IF ~Truthy(name) \/ ~Truthy(phone)
  THEN /\ res' = [op |-> "leads", status |-> 400, id |-> 0]
       /\ UNCHANGED <<store, awaiting>>
  ELSE
    LET clientId == PageClient(capture_page)
        id == Len(leads) + 1
        hasClient == clientId # 0 /\ clientId \in 1..Len(clients)
        leadEmail == GetEmailTemplate("new_lead_notification", [type |-> Undefined])
        internal == GetEmailTemplate("internal_notification",
                                     [type |-> Str("New Lead")])
    IN
    /\ leads' = Append(leads, NewLead(clientId, capture_page, name, phone, source))
    /\ capture_pages' = IF Truthy(capture_page)
                        THEN BumpSubmissions(capture_pages, capture_page)
                        ELSE capture_pages
    /\ lead_activity' = Append(lead_activity,
                               CreatedActivity(id, capture_page, source))
    /\ IF (hasClient /\ leadEmail.kind # "ok") \/ (~hasClient /\ internal.kind # "ok")
       THEN /\ res' = [op |-> "leads", status |-> 500, id |-> 0]
            /\ awaiting' = awaiting
       ELSE /\ res' = res
            /\ awaiting' = awaiting \cup
                 {IF hasClient
                  THEN [id |-> id, stage |-> "client", to |-> clients[clientId].email]
                  ELSE [id |-> id, stage |-> "operator", to |-> NotificationEmail]}
    /\ Len(leads') <= MaxLeads
    /\ UNCHANGED <<subscribers, trial_signups, clients, email_log>>

\* the send a capture waits for settles: sendEmail logs it, and the handler
\* runs on to the operator's notification or to its response
LeadCaptureResume(h, ok) ==
  LET internal == GetEmailTemplate("internal_notification",
                                   [type |-> Str("New Lead")])
  IN
  /\ h \in awaiting
  /\ email_log' = SendEmail(email_log, h.to,
                            IF h.stage = "client" THEN "New Lead" ELSE "NEW LEAD", ok)
  /\ IF h.stage = "client" /\ internal.kind = "ok"
     THEN /\ awaiting' = (awaiting \ {h}) \cup
                 {[id |-> h.id, stage |-> "operator", to |-> NotificationEmail]}
          /\ res' = res
     ELSE /\ awaiting' = awaiting \ {h}
          /\ res' = IF h.stage = "client"
                    THEN [op |-> "leads", status |-> 500, id |-> 0]
                    ELSE [op |-> "leads", status |-> 200, id |-> h.id]
  /\ Len(email_log') <= MaxLog
  /\ UNCHANGED <<subscribers, trial_signups, clients, leads, lead_activity,
                 capture_pages>>

(* ---------------------------- PATCH /api/leads/:id --------------------- *)
\* a SET list that tests every member for truthiness
UpdateLeadTruthy(lead, status, notes, job_value, contacted_at, booked_at) ==
  [lead EXCEPT
     !.status = IF Truthy(status) THEN status ELSE @,
     !.notes = IF Truthy(notes) THEN notes ELSE @,
     !.job_value = IF Truthy(job_value) THEN job_value ELSE @,
     !.contacted_at = IF Truthy(contacted_at) THEN contacted_at ELSE @,
     !.booked_at = IF Truthy(booked_at) THEN booked_at ELSE @]

\* the SET list built from the request body, applied to one row
UpdateLead(lead, status, notes, job_value, contacted_at, booked_at) ==
  [lead EXCEPT
     !.status = IF Truthy(status) THEN status ELSE @,
     !.notes = IF notes # Undefined THEN notes ELSE @,
     !.job_value = IF job_value # Undefined THEN job_value ELSE @,
     !.contacted_at = IF Truthy(contacted_at) THEN contacted_at ELSE @,
     !.booked_at = IF Truthy(booked_at) THEN booked_at ELSE @]

\* the details logged with the "status_updated" activity
UpdateDetails(status, notes, job_value, contacted_at, booked_at) ==
  JSONStringify([status |-> status, notes |-> notes, job_value |-> job_value])

LeadUpdate(id, status, notes, job_value, contacted_at, booked_at) ==
  IF id \notin 1..Len(leads)
  THEN /\ res' = [op |-> "lead-update", status |-> 404, id |-> id]
       /\ UNCHANGED store
  ELSE /\ leads' = [leads EXCEPT ![id] =
                      UpdateLead(@, status, notes, job_value, contacted_at,
                                 booked_at)]
       /\ lead_activity' = Append(lead_activity,
            [lead_id |-> id, action |-> "status_updated",
             details |-> UpdateDetails(status, notes, job_value, contacted_at,
                                       booked_at)])
       /\ res' = [op |-> "lead-update", status |-> 200, id |-> id]
       /\ Cardinality({a \in 1..Len(lead_activity') :
                         lead_activity'[a].action = "status_updated"}) <= MaxUpdates
       /\ UNCHANGED <<subscribers, trial_signups, clients, capture_pages, email_log>>

(* ---------------------------- GET /api/dashboard/:token ---------------- *)
\* ticks in 7 days
WeekTicks == 2

\* `W${4 - i}`
WeekLabel(k) == <<"W1", "W2", "W3", "W4">>[k]

\* (x).toFixed(1) of the quotient 100 * num / den: the number of tenths
\* nearest to it, the larger one on a tie
ToFixed1(num, den) ==
  [t |-> "str", s |-> "toFixed(1)", n |-> (2000 * num + den) \div (2 * den)]

\* SELECT * FROM clients WHERE dashboard_token = ?: the client, 0 for none
TokenClient(token) ==
  IF HasToken(clients, token)
  THEN CHOOSE c \in 1..Len(clients) : clients[c].dashboard_token = token
  ELSE 0

\* a SELECT without its WHERE clause
ClientLeadsAny(client) == 1..Len(leads)

\* SELECT * FROM leads WHERE client_id = ?
ClientLeads(client) == {i \in 1..Len(leads) : leads[i].client_id = client}

\* a total that counts the leads of every client
TotalLeadsAll(client) == Len(leads)

\* leads.length
TotalLeads(client) == Cardinality(ClientLeads(client))

\* leads.filter(l => l.status === s).length
StatusLeads(client, s) ==
  Cardinality({i \in ClientLeads(client) : leads[i].status = Str(s)})

\* totalLeads > 0 ? ((bookedLeads / totalLeads) * 100).toFixed(1) : 0
CloseRate(client) ==
  IF TotalLeads(client) > 0
  THEN ToFixed1(StatusLeads(client, "booked"), TotalLeads(client))
  ELSE Num(0)

\* the loop i = 3..0: weekStart = now - i * 7 days, weekEnd = weekStart + 7
\* days, count the leads with weekStart <= created_at < weekEnd; the bucket
\* pushed for i is the (4 - i)-th
WeeklyLeads(client) ==
  [k \in 1..4 |->
     LET i == 4 - k
         weekStart == now - i * WeekTicks
         weekEnd == weekStart + WeekTicks
     IN [week |-> WeekLabel(4 - i),
         count |-> Cardinality({l \in ClientLeads(client) :
                                  /\ leads[l].created_at >= weekStart
                                  /\ leads[l].created_at < weekEnd})]]

\* l.job_value || 0
JobValueOrZero(v) == IF Truthy(v) THEN v.n ELSE 0

\* leads.reduce((sum, l) => sum + (l.job_value || 0), 0): the sum over the
\* rows 1..k of the table that are the client's
TotalRevenue(client) ==
  LET sum[k \in 0..Len(leads)] ==
        IF k = 0 THEN 0
        ELSE sum[k - 1] + (IF k \in ClientLeads(client)
                           THEN JobValueOrZero(leads[k].job_value) ELSE 0)
  IN sum[Len(leads)]

\* (x).toFixed(0) of the quotient num / den: the nearest integer, the larger
\* one on a tie
ToFixed0(num, den) ==
  [t |-> "str", s |-> "toFixed(0)", n |-> (2 * num + den) \div (2 * den)]

\* totalLeads > 0 ? (client.plan_price / totalLeads).toFixed(0) : 0
CostPerLead(client) ==
  IF TotalLeads(client) > 0
  THEN ToFixed0(clients[client].plan_price, TotalLeads(client))
  ELSE Num(0)

\* ORDER BY created_at DESC: lead l comes before lead m; rows with equal
\* created_at come in the order of their insertion
Before(l, m) ==
  \/ leads[l].created_at > leads[m].created_at
  \/ leads[l].created_at = leads[m].created_at /\ l < m

\* the rows of the SELECT in its order
OrderedLeads(client) ==
  SortSeq(SelectSeq([l \in 1..Len(leads) |-> l], LAMBDA l : l \in ClientLeads(client)),
          Before)

\* l => ({id, name, phone, ..., status, jobValue, createdAt})
RecentLead(l) ==
  [id |-> l, name |-> leads[l].name, phone |-> leads[l].phone,
   status |-> leads[l].status, jobValue |-> leads[l].job_value,
   createdAt |-> leads[l].created_at]

\* leads.slice(0, 20).map(...)
RecentLimit == 20
RecentLeads(client) ==
  LET rows == OrderedLeads(client)
      first == SubSeq(rows, 1, IF Len(rows) < RecentLimit THEN Len(rows)
                               ELSE RecentLimit)
  IN [k \in 1..Len(first) |-> RecentLead(first[k])]

\* the body of the 200 response
DashboardBody(client) ==
  [client |-> [businessName |-> clients[client].business_name,
               plan |-> clients[client].plan,
               industry |-> clients[client].industry,
               city |-> clients[client].city],
   stats |-> [totalLeads |-> TotalLeads(client),
              newLeads |-> StatusLeads(client, "new"),
              contactedLeads |-> StatusLeads(client, "contacted"),
              bookedLeads |-> StatusLeads(client, "booked"),
              totalRevenue |-> TotalRevenue(client),
              closeRate |-> CloseRate(client),
              costPerLead |-> CostPerLead(client)],
   weeklyLeads |-> WeeklyLeads(client),
   recentLeads |-> RecentLeads(client)]

Dashboard(token) ==
  /\ LET client == TokenClient(token)
     IN IF client = 0
        THEN res' = [op |-> "dashboard", status |-> 404, id |-> token]
        ELSE LET body == DashboardBody(client)
             IN res' = [op |-> "dashboard", status |-> 200, id |-> token,
                        client |-> body.client, stats |-> body.stats,
                        weeklyLeads |-> body.weeklyLeads,
                        recentLeads |-> body.recentLeads]
  /\ UNCHANGED store

(* ---------------------------- GET /api/webhooks/facebook --------------- *)
\* mode === 'subscribe' && token === process.env.WEBHOOK_SECRET: strict
\* equality of two values, either of which may be undefined
FacebookVerify(mode, token, challenge) ==
  /\ IF mode = Str("subscribe") /\ token = env.WEBHOOK_SECRET
     THEN res' = [op |-> "facebook-verify", status |-> 200, id |-> 0,
                  body |-> challenge]
     ELSE res' = [op |-> "facebook-verify", status |-> 403, id |-> 0,
                  body |-> Str("Forbidden")]
  /\ UNCHANGED store

(* ---------------------------- POST /api/webhooks/whop ------------------ *)
WhopActions ==
  {"payment.succeeded", "membership.went_valid", "membership.went_invalid",
   "payment.failed"}

\* the data member of the body: absent, or an object with optional members
\* user {email, id}, membership and id
NoUser == [t |-> "undefined", email |-> <<>>, id |-> Undefined]
User(email, id) == [t |-> "obj", email |-> email, id |-> id]
NoData == [t |-> "undefined", user |-> NoUser, membership |-> Undefined,
           id |-> Undefined]
Data(user, membership, id) ==
  [t |-> "obj", user |-> user, membership |-> membership, id |-> id]

\* an UPDATE of the status alone on every client
SetStatusAll(table, email, status) ==
  [i \in 1..Len(table) |-> [table[i] EXCEPT !.status = status]]

\* UPDATE clients SET status = ? WHERE email = ?
SetStatus(table, email, status) ==
  [i \in 1..Len(table) |->
     IF table[i].email = email THEN [table[i] EXCEPT !.status = status]
     ELSE table[i]]

\* the activating UPDATE without its WHERE clause
SetActiveAll(table, email, membership, user_id) ==
  [i \in 1..Len(table) |->
     [table[i] EXCEPT !.status = "active",
                      !.whop_membership_id = membership,
                      !.whop_user_id = user_id]]

\* UPDATE clients SET status = 'active', whop_membership_id = ?,
\* whop_user_id = ? WHERE email = ?
SetActive(table, email, membership, user_id) ==
  [i \in 1..Len(table) |->
     IF table[i].email = email
     THEN [table[i] EXCEPT !.status = "active",
                           !.whop_membership_id = membership,
                           !.whop_user_id = user_id]
     ELSE table[i]]

\* a secret check that lets every request through
SecretRejectsNever(signature) == FALSE

\* whopSecret && req.headers['whop-signature'] !== whopSecret
SecretRejects(signature) ==
  Truthy(env.WHOP_WEBHOOK_SECRET) /\ signature # env.WHOP_WEBHOOK_SECRET

WhopWebhook(signature, action, data) ==
  LET \* data.user?.email, data.user?.id
      email == data.user.email
      user_id == data.user.id
      received == [op |-> "whop", status |-> 200, id |-> 0]
  IN
  IF SecretRejects(signature)
  THEN /\ res' = [op |-> "whop", status |-> 401, id |-> 0]
       /\ UNCHANGED store
  ELSE IF action \in WhopActions /\ data.t = "undefined"
  THEN \* data.user of an undefined data throws: catch answers 500
       /\ res' = [op |-> "whop", status |-> 500, id |-> 0]
       /\ UNCHANGED store
  ELSE
    /\ clients' =
         IF action \in {"payment.succeeded", "membership.went_valid"} /\ email # <<>>
         THEN SetActive(clients, email,
                        OrElse(IF action = "payment.succeeded"
                               THEN data.membership ELSE data.id, Null),
                        OrElse(user_id, Null))
         ELSE IF action = "membership.went_invalid" /\ email # <<>>
         THEN SetStatus(clients, email, "churned")
         ELSE clients
    /\ IF action \in {"payment.succeeded", "membership.went_invalid", "payment.failed"}
       THEN \E ok \in BOOLEAN :
              email_log' = SendEmail(email_log, NotificationEmail,
                             CASE action = "payment.succeeded" -> "New Payment"
                               [] action = "membership.went_invalid" -> "Membership Cancelled"
                               [] OTHER -> "Payment Failed",
                             ok)
       ELSE email_log' = email_log
    /\ res' = received
    /\ Len(email_log') <= MaxLog
    /\ UNCHANGED <<subscribers, trial_signups, leads, lead_activity, capture_pages>>

(* ---------------------------- the clock -------------------------------- *)
(* ---------------------------- POST /api/webhooks/zapier ---------------- *)
\* the lead member of the body: absent, or an object with optional members
NoLead == [t |-> "undefined", name |-> Undefined, phone |-> Undefined,
           capture_page |-> Undefined, source |-> Undefined]
LeadObject(name, phone, capture_page, source) ==
  [t |-> "obj", name |-> name, phone |-> phone, capture_page |-> capture_page,
   source |-> source]

\* a test that takes every event tag that is given
IsNewLeadAny(event) == Truthy(event)

\* data.event === 'new_lead'
IsNewLead(event) == event = Str("new_lead")

\* the body that POST /api/leads parses out of JSON.stringify(data.lead): no
\* body, read as {}, when there is no lead; an undefined member is dropped by
\* JSON.stringify and is undefined again after parsing
ForwardedBody(lead) ==
  IF lead.t = "undefined" THEN LeadObject(Undefined, Undefined, Undefined, Undefined)
  ELSE lead

ZapierWebhook(event, lead) ==
  IF IsNewLead(event)
  THEN LET body == ForwardedBody(lead)
       IN LeadCaptureVia(body.name, body.phone, body.capture_page, body.source,
                         "zapier")
  ELSE /\ res' = [op |-> "zapier", status |-> 200, id |-> 0]
       /\ UNCHANGED store

Tick ==
  /\ now < MaxNow
  /\ now' = now + 1
  /\ UNCHANGED <<store, res, env, awaiting>>

(* ---------------------------- request inputs --------------------------- *)
StatusInputs == {Undefined, Str(""), Str("booked")}
NotesInputs == {Undefined, Str(""), Str("called")}
JobValueInputs == {Undefined, Num(0)}
ContactedAtInputs == {Undefined, Null, Str("2026-01-02")}
BookedAtInputs == {Undefined, Str("2026-01-03")}
CapturePageInputs == {Undefined} \cup {Str(x) : x \in Slugs}

SubscribeReq ==
  /\ UNCHANGED <<now, env, awaiting>>
  /\ \E email \in EmailInputs, source \in Field("ad") : Subscribe(email, source)

TrialSignupReq ==
  /\ UNCHANGED <<now, env, awaiting>>
  /\ \E firstName \in Field("Al"), lastName \in Field("Ray"),
           businessName \in Field("Acme"), email \in EmailInputs,
           phone \in Field("555"), industry \in Field("hvac"),
           city \in Field("Edmonton"), source \in {Undefined} :
          TrialSignup(firstName, lastName, businessName, email, phone, industry,
                      city, source)

\* a trial signup that fills in the whole form
TrialSignupFullReq ==
  /\ UNCHANGED <<now, env, awaiting>>
  /\ \E email \in EmailInputs, lastName \in Field("Ray"),
        industry \in {Str("hvac"), Str("plumbing")} :
       TrialSignup(Str("Al"), lastName, Str("Acme"), email, Str("555"),
                   industry, Str("Edmonton"), Undefined)

CreateClientReq ==
  /\ UNCHANGED <<now, env, awaiting>>
  /\ \E trial_id \in 0..(Len(trial_signups) + 1), business_name \in Field("Acme"),
           email \in ClientEmails \cup {<<>>} :
          CreateClient(trial_id, business_name, Str("Mike"), email, Str("555"),
                       Str("hvac"), Str("Edmonton"))

\* client creation by two businesses, with the token drawn from a space so
\* small that two draws can agree
TokenSpace == 1..2
RegisterClientReq ==
  /\ UNCHANGED <<now, env, awaiting>>
  /\ \E dashboardToken \in TokenSpace, email \in {<<"m">>, <<"n">>} :
       CreateClientWith(dashboardToken, 0, Str("Acme"), Str("Mike"), email,
                        Str("555"), Str("hvac"), Str("Edmonton"))

\* a trial signup and a page creation in which only the UNIQUE column varies
TrialJoinReq ==
  /\ UNCHANGED <<now, env, awaiting>>
  /\ \E email \in EmailInputs :
       TrialSignup(Str("Al"), Str("Ray"), Str("Acme"), email, Str("555"),
                   Str("hvac"), Str("Edmonton"), Undefined)
PublishPageReq ==
  /\ UNCHANGED <<now, env, awaiting>>
  /\ \E slug \in Slugs : CreateCapturePage(0, Str(slug), Str("Quotes"))

\* requests in which only the members that are validated or looked up vary
VisitorEmails == {<<>>, <<"a">>}
SubscribeTryReq ==
  /\ UNCHANGED <<now, env, awaiting>>
  /\ \E email \in VisitorEmails : Subscribe(email, Undefined)
TrialTryReq ==
  /\ UNCHANGED <<now, env, awaiting>>
  /\ \E firstName \in Field("Al"), email \in VisitorEmails, phone \in Field("555") :
       TrialSignup(firstName, Str("Ray"), Str("Acme"), email, phone, Str("hvac"),
                   Str("Edmonton"), Undefined)
LeadTryReq ==
  /\ UNCHANGED <<now, env, awaiting>>
  /\ \E name \in Field("Sarah"), phone \in Field("555") :
       LeadCapture(name, phone, Str("plumbing-calgary"), Undefined)
StatusTryReq ==
  /\ UNCHANGED <<now, env, awaiting>>
  /\ \E id \in 1..(Len(leads) + 1) :
       LeadUpdate(id, Str("booked"), Undefined, Undefined, Undefined, Undefined)

\* lead captures that run concurrently, and the sends they wait for
LeadStartReq ==
  /\ UNCHANGED <<now, env>>
  /\ \E name \in Field("Sarah"), capture_page \in {Undefined, Str("plumbing-calgary")} :
       LeadCaptureStart(name, Str("555"), capture_page, Undefined)
LeadResumeReq ==
  /\ UNCHANGED <<now, env>>
  /\ \E h \in awaiting, ok \in BOOLEAN : LeadCaptureResume(h, ok)
\* a page for the first client, or for nobody
BindPageReq ==
  /\ UNCHANGED <<now, env, awaiting>>
  /\ \E client_id \in 0..1 :
       CreateCapturePage(client_id, Str("plumbing-calgary"), Str("Quotes"))

CreateCapturePageReq ==
  /\ UNCHANGED <<now, env, awaiting>>
  /\ \E client_id \in 0..(Len(clients) + 1), slug \in CapturePageInputs,
           title \in Field("Quotes") :
          CreateCapturePage(client_id, slug, title)

\* lead capture from a landing page
LeadCaptureReq ==
  /\ UNCHANGED <<now, env, awaiting>>
  /\ \E name \in Field("Sarah"), phone \in Field("555"),
           capture_page \in CapturePageInputs :
          LeadCapture(name, phone, capture_page, Undefined)

LeadUpdateReq ==
  /\ UNCHANGED <<now, env, awaiting>>
  /\ \E id \in 1..(Len(leads) + 1), status \in StatusInputs, notes \in NotesInputs,
           job_value \in JobValueInputs, contacted_at \in ContactedAtInputs,
           booked_at \in BookedAtInputs :
          LeadUpdate(id, status, notes, job_value, contacted_at, booked_at)

\* lead capture from the page of a client
PageLeadReq ==
  /\ UNCHANGED <<now, env, awaiting>>
  /\ \E slug \in Slugs : LeadCapture(Str("Sarah"), Str("555"), Str(slug), Undefined)

\* a status update that books a lead
BookLeadReq ==
  /\ UNCHANGED <<now, env, awaiting>>
  /\ \E id \in 1..Len(leads) :
       LeadUpdate(id, Str("booked"), Undefined, Undefined, Undefined, Undefined)

\* a status update that books one of two leads, the last but two or the last
\* but one, and records the value of the job
JobDoneReq ==
  /\ UNCHANGED <<now, env, awaiting>>
  /\ \E id \in {Len(leads) - 2, Len(leads) - 1} :
       LeadUpdate(id, Str("booked"), Undefined, Num(500), Undefined, Undefined)

DashboardReq ==
  /\ UNCHANGED <<now, env, awaiting>>
  /\ \E token \in 1..(Len(clients) + 1) : Dashboard(token)

\* billing webhook bodies: no data object; a data object without user; the
\* user email of the first client, without and with the identifiers; the
\* user email of nobody
DataInputs ==
  {NoData,
   Data(NoUser, Str("mem_1"), Str("mem_2")),
   Data(User(<<"m">>, Undefined), Undefined, Str("mem_2")),
   Data(User(<<"m">>, Str("usr_1")), Str("mem_1"), Str("mem_2")),
   Data(User(<<"x">>, Str("usr_1")), Str("mem_1"), Str("mem_2"))}
ActionInputs == WhopActions \cup {"refund.created"}
SignatureInputs == {Undefined, Str("s3cret"), Str("guess")}

WhopWebhookReq ==
  /\ UNCHANGED <<now, env, awaiting>>
  /\ \E signature \in SignatureInputs, action \in ActionInputs, data \in DataInputs :
       WhopWebhook(signature, action, data)

EventInputs == {Undefined, Str("new_lead"), Str("lead_updated")}
LeadInputs ==
  {NoLead} \cup {LeadObject(name, Str("555"), capture_page, source) :
                   name \in Field("Sarah"), capture_page \in CapturePageInputs,
                   source \in Field("zapier")}

ZapierWebhookReq ==
  /\ UNCHANGED <<now, env, awaiting>>
  /\ \E event \in EventInputs, lead \in LeadInputs : ZapierWebhook(event, lead)

ModeInputs == {Undefined, Str("subscribe"), Str("unsubscribe")}
TokenInputs == {Undefined, Str(""), Str("s3cret"), Str("guess")}

FacebookVerifyReq ==
  /\ UNCHANGED <<now, env, awaiting>>
  /\ \E mode \in ModeInputs, token \in TokenInputs, challenge \in Field("c1") :
       FacebookVerify(mode, token, challenge)

\* calls of the notifier: the recipients and subjects the handlers pass
RecipientInputs == {NotificationEmail, <<"m">>}
SubjectInputs == {"New Lead", "NEW LEAD"}

SendEmailReq ==
  /\ UNCHANGED <<now, env, awaiting>>
  /\ \E to \in RecipientInputs, subject \in SubjectInputs, ok \in BOOLEAN :
       SendEmailCall(to, subject, ok)

\* template names, one of them unknown, and payloads with and without the
\* member `type`
TemplateInputs == TemplateNames \cup {"password_reset"}
PayloadInputs == {[type |-> Undefined], [type |-> Str("New Lead")]}

GetEmailTemplateReq ==
  /\ UNCHANGED <<now, env, awaiting>>
  /\ \E type \in TemplateInputs, data \in PayloadInputs :
       GetEmailTemplateCall(type, data)

(* ---------------------------- specifications --------------------------- *)
(* The handlers of one specification write only the tables it names (and    *)
(* the append-only email log, which no handler reads), so the store is      *)
(* explored one group of tables at a time.                                  *)

\* subscribers and trial_signups: the two signup forms
NextSignup == SubscribeReq \/ TrialSignupReq
SpecSignup == Init /\ [][NextSignup]_vars

\* clients, capture_pages, leads, lead_activity: lead capture behind capture pages
NextLeads == CreateClientReq \/ CreateCapturePageReq \/ LeadCaptureReq
SpecLeads == Init /\ [][NextLeads]_vars

\* leads, lead_activity: status updates, starting from the store as two lead
\* captures without a capture page leave it (both operator emails sent)
InitUpdate ==
  /\ now = 0
  /\ awaiting = {}
  /\ env = NoSecrets
  /\ subscribers = <<>>
  /\ trial_signups = <<>>
  /\ clients = <<>>
  /\ leads = <<NewLead(0, Undefined, Str("Sarah"), Str("555"), Undefined),
               NewLead(0, Undefined, Str("David"), Str("556"), Undefined)>>
  /\ lead_activity = <<CreatedActivity(1, Undefined, Undefined),
                       CreatedActivity(2, Undefined, Undefined)>>
  /\ capture_pages = <<>>
  /\ email_log = SendEmail(SendEmail(<<>>, NotificationEmail, "NEW LEAD", TRUE),
                           NotificationEmail, "NEW LEAD", TRUE)
  /\ res = [op |-> "leads", status |-> 200, id |-> 2]

NextUpdate == LeadUpdateReq
SpecUpdate == InitUpdate /\ [][NextUpdate]_vars

\* the store as two direct client creations and the creation of one capture
\* page for each leave it
ClientsStore ==
  /\ subscribers = <<>>
  /\ trial_signups = <<>>
  /\ clients = <<NewClient(1, 0, Str("Acme"), Str("Mike"), <<"m">>, Str("555"),
                           Str("hvac"), Str("Edmonton")),
                 NewClient(2, 0, Str("Bolt"), Str("Nina"), <<"n">>, Str("556"),
                           Str("plumbing"), Str("Calgary"))>>
  /\ leads = <<>>
  /\ lead_activity = <<>>
  /\ capture_pages = <<NewCapturePage(1, Str("hvac-edmonton-demo"), Str("Quotes")),
                       NewCapturePage(2, Str("plumbing-calgary"), Str("Quotes"))>>
  /\ email_log = <<>>
  /\ res = [op |-> "create-capture-page", status |-> 200, id |-> 2]

InitClients ==
  /\ now = 0
  /\ awaiting = {}
  /\ env = NoSecrets
  /\ ClientsStore

\* leads and the clock: the weekly histogram of the client dashboard
NextWeekly == PageLeadReq \/ Tick \/ DashboardReq
SpecWeekly == InitClients /\ [][NextWeekly]_vars

\* leads and their status: the stats of the client dashboard
NextStats == PageLeadReq \/ BookLeadReq \/ DashboardReq
SpecStats == InitClients /\ [][NextStats]_vars

\* clients and the billing secret of the environment: the billing webhook
InitBilling ==
  /\ now = 0
  /\ awaiting = {}
  /\ env \in [WHOP_WEBHOOK_SECRET : {Undefined, Str("s3cret")},
              WEBHOOK_SECRET : {Undefined}]
  /\ ClientsStore

NextBilling == WhopWebhookReq
SpecBilling == InitBilling /\ [][NextBilling]_vars

\* the verification secret of the environment and the leads of the pages:
\* the Lead-Ads verification handshake beside lead capture
InitVerify ==
  /\ now = 0
  /\ awaiting = {}
  /\ env \in [WHOP_WEBHOOK_SECRET : {Undefined}, WEBHOOK_SECRET : SecretInputs]
  /\ ClientsStore

NextVerify == PageLeadReq \/ FacebookVerifyReq
SpecVerify == InitVerify /\ [][NextVerify]_vars

\* leads captured directly and through the automation webhook
NextZapier == PageLeadReq \/ ZapierWebhookReq
SpecZapier == InitClients /\ [][NextZapier]_vars

\* the tables with a UNIQUE column
NextRegistry == SubscribeReq \/ TrialJoinReq \/ RegisterClientReq \/ PublishPageReq
SpecRegistry == Init /\ [][NextRegistry]_vars

\* the requests a visitor or a client can send: ingestion, status updates and
\* dashboard reads
NextIngest == SubscribeTryReq \/ TrialTryReq \/ LeadTryReq \/ StatusTryReq
              \/ DashboardReq
SpecIngest == InitClients /\ [][NextIngest]_vars

\* lead captures interleaved at their awaits, beside page creation
InitConcurrent ==
  /\ now = 0
  /\ awaiting = {}
  /\ env = NoSecrets
  /\ subscribers = <<>> /\ trial_signups = <<>>
  /\ clients = <<NewClient(1, 0, Str("Acme"), Str("Mike"), <<"m">>, Str("555"),
                           Str("hvac"), Str("Edmonton"))>>
  /\ leads = <<>> /\ lead_activity = <<>> /\ capture_pages = <<>>
  /\ email_log = <<>>
  /\ res = [op |-> "create-client", status |-> 200, id |-> 1]
NextConcurrent == LeadStartReq \/ LeadResumeReq \/ BindPageReq
SpecConcurrent == InitConcurrent /\ [][NextConcurrent]_vars

\* the dashboard of a client with about twenty leads. The store is as the
\* captures of n leads through the first client's page (two a day, the
\* latest today), one through the second client's page and one without a
\* page leave it
OwnLeadCounts == 19..21
RecentStore(n) ==
  /\ subscribers = <<>>
  /\ trial_signups = <<>>
  /\ clients = <<NewClient(1, 0, Str("Acme"), Str("Mike"), <<"m">>, Str("555"),
                           Str("hvac"), Str("Edmonton")),
                 NewClient(2, 0, Str("Bolt"), Str("Nina"), <<"n">>, Str("556"),
                           Str("plumbing"), Str("Calgary"))>>
  /\ leads =
       [i \in 1..n |->
          [NewLead(1, Str("hvac-edmonton-demo"), Str("Sarah"), Str("555"), Undefined)
             EXCEPT !.created_at = 0 - ((n - i) \div 2)]]
       \o <<NewLead(2, Str("plumbing-calgary"), Str("David"), Str("556"), Undefined),
            NewLead(0, Undefined, Str("Omar"), Str("557"), Undefined)>>
  /\ lead_activity =
       [i \in 1..n |-> CreatedActivity(i, Str("hvac-edmonton-demo"), Undefined)]
       \o <<CreatedActivity(n + 1, Str("plumbing-calgary"), Undefined),
            CreatedActivity(n + 2, Undefined, Undefined)>>
  /\ capture_pages =
       <<[NewCapturePage(1, Str("hvac-edmonton-demo"), Str("Quotes"))
            EXCEPT !.submissions = n],
         [NewCapturePage(2, Str("plumbing-calgary"), Str("Quotes"))
            EXCEPT !.submissions = 1]>>
  /\ email_log = SendEmail(<<>>, NotificationEmail, "NEW LEAD", TRUE)
  /\ res = [op |-> "leads", status |-> 200, id |-> n + 2]

InitRecent ==
  /\ now = 0
  /\ awaiting = {}
  /\ env = NoSecrets
  /\ \E n \in OwnLeadCounts : RecentStore(n)

NextRecent == JobDoneReq \/ Tick \/ DashboardReq
SpecRecent == InitRecent /\ [][NextRecent]_vars

\* trial_signups and clients: the conversion of trials into clients
NextConvert == TrialSignupFullReq \/ CreateClientReq
SpecConvert == Init /\ [][NextConvert]_vars

\* the email log: the notifier on its own
NextNotifier == SendEmailReq \/ GetEmailTemplateReq
SpecNotifier == Init /\ [][NextNotifier]_vars

Next == NextSignup \/ NextLeads \/ NextUpdate \/ NextWeekly \/ NextStats \/ NextBilling \/ NextVerify
        \/ NextNotifier \/ NextConvert \/ NextZapier \/ NextRegistry \/ NextIngest
        \/ NextConcurrent \/ NextRecent
Spec == Init /\ [][Next]_vars

(* ======================================================================= *)
(* Properties                                                              *)
(* ======================================================================= *)
\* rows of a table that hold the email e
EmailRows(table, e) == {i \in 1..Len(table) : table[i].email = e}
\* t is s with one row appended
Appended(s, t) == Len(t) = Len(s) + 1 /\ SubSeq(t, 1, Len(s)) = s
\* rows of the email log with the given subject
LogRows(subject) == {i \in 1..Len(email_log) : email_log[i].subject = subject}

(* ---- C1 ---- *)
\* C1: every POST /api/subscribe that carries an email, in any spelling of
\* letter case and surrounding whitespace, is answered 200 and leaves exactly
\* one Subscriber row for the lower-cased, trimmed email (stored in that
\* form); a repeat of an email that has a row changes no Subscriber row.
C1_SubscribeIdempotent ==
  [][res'.op = "subscribe" =>
       \A email \in RawEmails, source \in Field("ad") :
         Subscribe(email, source) =>
           /\ res'.status = 200
           /\ Cardinality(EmailRows(subscribers', NormEmail(email))) = 1
           /\ \A i \in 1..Len(subscribers') :
                subscribers'[i].email \in {<<"a">>, <<"b">>}
           /\ HasEmail(subscribers, NormEmail(email)) =>
                subscribers' = subscribers]_vars

\* two subscribes were answered and one address is on file
C1_Witness ==
  /\ res.op = "subscribe" /\ res.status = 200
  /\ Len(subscribers) = 1
  /\ Cardinality(LogRows("New subscriber")) = 2

(* ---- C2 ---- *)
\* C2: a trial signup with first name, email and phone, and an email that has
\* no trial yet, is answered 200 with the id of the new row; afterwards there
\* is exactly one TrialSignup row for the email, with status "new", and a
\* Subscriber row for it.
C2_TrialSignupSucceeds ==
  [][res'.op = "trial-signup" =>
       \A firstName \in {Str("Al")}, lastName \in Field("Ray"),
          businessName \in Field("Acme"), email \in RawEmails,
          phone \in {Str("555")}, industry \in Field("hvac"),
          city \in Field("Edmonton") :
         (/\ ~HasEmail(trial_signups, NormEmail(email))
          /\ TrialSignup(firstName, lastName, businessName, email, phone,
                         industry, city, Undefined)) =>
           /\ res'.status = 200
           /\ res'.id = Len(trial_signups')
           /\ Cardinality(EmailRows(trial_signups', NormEmail(email))) = 1
           /\ \A i \in EmailRows(trial_signups', NormEmail(email)) :
                trial_signups'[i].status = "new"
           /\ HasEmail(subscribers', NormEmail(email))]_vars

(* ---- C3 ---- *)
\* C3: a trial signup (first name, email and phone supplied) whose normalised
\* email already has a TrialSignup row is answered 409, and the table of
\* TrialSignup rows is left as it was.
C3_DuplicateTrialConflict ==
  [][res'.op = "trial-signup" =>
       \A firstName \in {Str("Al")}, lastName \in Field("Ray"),
          businessName \in Field("Acme"), email \in RawEmails,
          phone \in {Str("555")}, industry \in Field("hvac"),
          city \in Field("Edmonton") :
         (/\ HasEmail(trial_signups, NormEmail(email))
          /\ TrialSignup(firstName, lastName, businessName, email, phone,
                         industry, city, Undefined)) =>
           /\ res'.status = 409
           /\ trial_signups' = trial_signups]_vars

(* ---- C4 ---- *)
\* pages whose slug is the given capture_page
PagesWithSlug(capture_page) ==
  {p \in 1..Len(capture_pages) : capture_pages[p].slug = capture_page}

\* C4: a lead capture with name and phone whose capture_page is the slug of a
\* CapturePage bound to a Client appends exactly one Lead, owned by that
\* Client and with status "new", adds exactly 1 to that page's submission
\* counter and changes no other page, and appends exactly one LeadActivity
\* with action "created" for the new lead.
C4_BoundPageCapture ==
  [][res'.op = "leads" =>
       \A capture_page \in {Str(x) : x \in Slugs} :
         \A p \in PagesWithSlug(capture_page) :
           (/\ capture_pages[p].client_id # 0
            /\ LeadCapture(Str("Sarah"), Str("555"), capture_page, Undefined)) =>
             /\ Appended(leads, leads')
             /\ leads'[Len(leads')].client_id = capture_pages[p].client_id
             /\ leads'[Len(leads')].status = Str("new")
             /\ capture_pages' =
                  [q \in 1..Len(capture_pages) |->
                     IF q = p
                     THEN [capture_pages[q] EXCEPT !.submissions = @ + 1]
                     ELSE capture_pages[q]]
             /\ Appended(lead_activity, lead_activity')
             /\ lead_activity'[Len(lead_activity')].action = "created"
             /\ lead_activity'[Len(lead_activity')].lead_id = Len(leads')]_vars

\* a lead was captured through a page bound to a client, beside another page
C4_Witness ==
  /\ res.op = "leads"
  /\ Len(capture_pages) = 2
  /\ \E i \in 1..Len(leads), p \in 1..Len(capture_pages) :
       /\ leads[i].client_id # 0
       /\ capture_pages[p].slug = leads[i].capture_page
       /\ capture_pages[p].client_id = leads[i].client_id
       /\ capture_pages[p].submissions = 1
       /\ \E a \in 1..Len(lead_activity) :
            lead_activity[a].action = "created" /\ lead_activity[a].lead_id = i

(* ---- C5 ---- *)
\* C5: a lead capture with name and phone whose capture_page is absent or is
\* the slug of no CapturePage appends a Lead with a NULL client, changes no
\* page, and is answered 200 with the new lead's id.
C5_UnboundCapture ==
  [][res'.op = "leads" =>
       \A capture_page \in CapturePageInputs :
         (/\ PagesWithSlug(capture_page) = {}
          /\ LeadCapture(Str("Sarah"), Str("555"), capture_page, Undefined)) =>
           /\ Appended(leads, leads')
           /\ leads'[Len(leads')].client_id = 0
           /\ capture_pages' = capture_pages
           /\ res'.status = 200
           /\ res'.id = Len(leads')]_vars

\* a lead with an unknown slug was captured while a client-bound page exists
C5_Witness ==
  /\ res.op = "leads" /\ res.status = 200 /\ res.id = Len(leads)
  /\ Len(leads) > 0
  /\ leads[Len(leads)].client_id = 0
  /\ Truthy(leads[Len(leads)].capture_page)
  /\ PagesWithSlug(leads[Len(leads)].capture_page) = {}
  /\ \E p \in 1..Len(capture_pages) : capture_pages[p].client_id # 0

(* ---- C6 ---- *)
\* C6: every lead capture that inserted its Lead row is answered 200 with the
\* new lead's id, whether or not an owning Client was resolved.
C6_LeadResponseSuccess ==
  [][(res'.op = "leads" /\ Appended(leads, leads')) =>
       (res'.status = 200 /\ res'.id = Len(leads'))]_vars

(* ---- C7 ---- *)
\* C7: a lead capture that inserted a Lead appends two email-log rows when an
\* owning Client was resolved (the first to that Client's email, the second to
\* the operator address) and one row, to the operator address, otherwise.
C7_LeadNotifications ==
  [][(res'.op = "leads" /\ Appended(leads, leads')) =>
       LET c == leads'[Len(leads')].client_id
           n == Len(email_log)
       IN IF c # 0
          THEN /\ Len(email_log') = n + 2
               /\ email_log'[n + 1].recipient = clients[c].email
               /\ email_log'[n + 1].subject = "New Lead"
               /\ email_log'[n + 2].recipient = NotificationEmail
          ELSE /\ Len(email_log') = n + 1
               /\ email_log'[n + 1].recipient = NotificationEmail]_vars

(* ---- C8 ---- *)
\* C8: a trial signup that inserted a TrialSignup row makes two email send
\* attempts, a welcome email to the signer and an internal notification to
\* the operator address, and is answered 200.
C8_TrialSignupEmails ==
  [][(res'.op = "trial-signup" /\ Appended(trial_signups, trial_signups')) =>
       /\ res'.status = 200
       /\ Len(email_log') = Len(email_log) + 2
       /\ email_log'[Len(email_log) + 1].subject = "Welcome to LeadFlow24"
       /\ email_log'[Len(email_log) + 2].recipient = NotificationEmail]_vars

(* ---- C9 ---- *)
\* the other leads are untouched and one "status_updated" row is logged
UpdateFrame(id) ==
  /\ Len(leads') = Len(leads)
  /\ \A k \in 1..Len(leads) : k # id => leads'[k] = leads[k]
  /\ Appended(lead_activity, lead_activity')
  /\ lead_activity'[Len(lead_activity')].action = "status_updated"
  /\ lead_activity'[Len(lead_activity')].lead_id = id

\* the columns of the updated lead that no update writes keep their values
UpdateKeepsOtherColumns(id) ==
  /\ leads'[id].client_id = leads[id].client_id
  /\ leads'[id].capture_page = leads[id].capture_page
  /\ leads'[id].name = leads[id].name
  /\ leads'[id].phone = leads[id].phone
  /\ leads'[id].source = leads[id].source
  /\ leads'[id].created_at = leads[id].created_at

\* C9 as claimed: a status update on an existing lead sets each of status,
\* notes, job_value, contacted_at, booked_at that is present in the request to
\* the requested value, leaves each absent one at its prior value, changes no
\* other lead and appends exactly one "status_updated" LeadActivity.
C9_UpdateSetsPresentFields ==
  [][(res'.op = "lead-update" /\ res'.status = 200) =>
       \A status \in StatusInputs, notes \in NotesInputs,
          job_value \in JobValueInputs, contacted_at \in ContactedAtInputs,
          booked_at \in BookedAtInputs :
         LeadUpdate(res'.id, status, notes, job_value, contacted_at, booked_at) =>
           LET old == leads[res'.id]
               new == leads'[res'.id]
               Set(v, prior) == IF v # Undefined THEN v ELSE prior
           IN /\ new.status = Set(status, old.status)
              /\ new.notes = Set(notes, old.notes)
              /\ new.job_value = Set(job_value, old.job_value)
              /\ new.contacted_at = Set(contacted_at, old.contacted_at)
              /\ new.booked_at = Set(booked_at, old.booked_at)
              /\ UpdateFrame(res'.id)]_vars

\* C9 as amended: a status update on an existing lead sets status,
\* contacted_at and booked_at when the request gives them a non-empty value,
\* and notes and job_value when the request holds them at all (null, "" and 0
\* included); every other one of the five keeps its prior value, as do the
\* lead's other columns; no other lead changes and exactly one
\* "status_updated" LeadActivity is appended, also for an empty request.
C9_UpdateSetsSuppliedFields ==
  [][(res'.op = "lead-update" /\ res'.status = 200) =>
       \A status \in StatusInputs, notes \in NotesInputs,
          job_value \in JobValueInputs, contacted_at \in ContactedAtInputs,
          booked_at \in BookedAtInputs :
         LeadUpdate(res'.id, status, notes, job_value, contacted_at, booked_at) =>
           LET old == leads[res'.id]
               new == leads'[res'.id]
               NonEmpty(v) == v \notin {Undefined, Null, Str(""), Num(0)}
           IN /\ new.status = IF NonEmpty(status) THEN status ELSE old.status
              /\ new.notes = IF notes # Undefined THEN notes ELSE old.notes
              /\ new.job_value =
                   IF job_value # Undefined THEN job_value ELSE old.job_value
              /\ new.contacted_at =
                   IF NonEmpty(contacted_at) THEN contacted_at ELSE old.contacted_at
              /\ new.booked_at =
                   IF NonEmpty(booked_at) THEN booked_at ELSE old.booked_at
              /\ UpdateKeepsOtherColumns(res'.id)
              /\ UpdateFrame(res'.id)]_vars

\* of two leads, the second was updated by a request holding an empty status,
\* job_value 0 and a booked_at date, the first being left as captured
C9_Witness ==
  /\ res.op = "lead-update" /\ res.status = 200 /\ res.id = 2
  /\ Len(leads) = 2
  /\ leads[2].job_value = Num(0)
  /\ leads[2].booked_at = Str("2026-01-03")
  /\ leads[2].status = Str("new")
  /\ leads[1].job_value = Null
  /\ lead_activity[Len(lead_activity)].action = "status_updated"
  /\ "status" \in DOMAIN lead_activity[Len(lead_activity)].details

(* ---- C10 ---- *)
\* the five updatable columns
UpdatableFields == {"status", "notes", "job_value", "contacted_at", "booked_at"}

\* C10: the "status_updated" LeadActivity appended by a status update holds
\* in its details the fields the update set: every one of the five fields
\* whose value the call changed is in the details with its new value.
C10_DetailsRecordSetFields ==
  [][(res'.op = "lead-update" /\ res'.status = 200
      /\ Appended(lead_activity, lead_activity')) =>
       LET old == leads[res'.id]
           new == leads'[res'.id]
           details == lead_activity'[Len(lead_activity')].details
       IN \A f \in UpdatableFields :
            new[f] # old[f] => (f \in DOMAIN details /\ details[f] = new[f])]_vars

(* ---- C11 ---- *)
\* the leads of a client created in the k-th of the four consecutive 7-day
\* windows that end at the time of the request (the last window holds the
\* instant of the request itself)
WindowLeads(client, k) ==
  {l \in ClientLeads(client) :
     /\ leads[l].created_at >= now - (5 - k) * WeekTicks
     /\ \/ leads[l].created_at < now - (4 - k) * WeekTicks
        \/ k = 4 /\ leads[l].created_at = now}

RECURSIVE SumCounts(_)
SumCounts(buckets) ==
  IF buckets = <<>> THEN 0 ELSE Head(buckets).count + SumCounts(Tail(buckets))

\* C11: the weekly histogram of every dashboard response has exactly 4
\* buckets labelled W1, W2, W3, W4 in that order, the k-th counting the
\* client's leads created in the k-th 7-day window of the 28 days ending at
\* the request; when every lead of the client was created within those 28
\* days the counts sum to the client's total lead count.
C11_WeeklyHistogram ==
  [][\A token \in 1..Len(clients) :
       Dashboard(token) =>
         LET w == res'.weeklyLeads
         IN /\ Len(w) = 4
            /\ \A k \in 1..4 :
                 /\ w[k].week = <<"W1", "W2", "W3", "W4">>[k]
                 /\ w[k].count = Cardinality(WindowLeads(token, k))
            /\ (\A l \in ClientLeads(token) :
                   leads[l].created_at >= now - 4 * WeekTicks)
                 => SumCounts(w) = res'.stats.totalLeads]_vars

(* ---- C12 ---- *)
\* C12: the close rate of every dashboard response is the number 0 when the
\* client has no leads, and otherwise the one-decimal figure nearest to
\* booked / total * 100, total counting the leads of that client and booked
\* those of them with status "booked".
C12_CloseRate ==
  [][\A token \in 1..Len(clients) :
       Dashboard(token) =>
         LET total == Cardinality({l \in 1..Len(leads) : leads[l].client_id = token})
             booked == Cardinality({l \in 1..Len(leads) :
                                      /\ leads[l].client_id = token
                                      /\ leads[l].status = Str("booked")})
             rate == res'.stats.closeRate
         IN /\ res'.status = 200
            /\ total = 0 => rate = Num(0)
            /\ total > 0 =>
                 /\ rate.t = "str"
                 \* | rate.n / 10 - 100 * booked / total | <= 1 / 20
                 /\ 2 * (rate.n * total - 1000 * booked) <= total
                 /\ 2 * (1000 * booked - rate.n * total) <= total]_vars

\* client 1 has three leads, one of them booked: its dashboard answered the
\* close rate "33.3"
C12_Witness ==
  /\ res.op = "dashboard" /\ res.status = 200 /\ res.id = 1
  /\ TotalLeads(1) = 3 /\ StatusLeads(1, "booked") = 1
  /\ res.stats.totalLeads = 3 /\ res.stats.bookedLeads = 1
  /\ res.stats.closeRate.n = 333

(* ---- C13 ---- *)
\* the bodies of a billing webhook that hold a data object
DataObjects == {d \in DataInputs : d.t = "obj"}

\* the clients whose email is the user email of the data
Matching(data) ==
  {i \in 1..Len(clients) : data.user.email # <<>> /\ clients[i].email = data.user.email}

\* an identifier as it is stored: the supplied one, NULL when none is supplied
Stored(v) == IF v = Undefined THEN Null ELSE v

\* the matching clients are active and hold the two identifiers, every other
\* client row is as before
Activated(data, membership) ==
  /\ Len(clients') = Len(clients)
  /\ \A i \in 1..Len(clients) :
       clients'[i] = IF i \in Matching(data)
                     THEN [clients[i] EXCEPT !.status = "active",
                                             !.whop_membership_id = Stored(membership),
                                             !.whop_user_id = Stored(data.user.id)]
                     ELSE clients[i]

\* C13 as claimed: an accepted payment.succeeded webhook whose user email is
\* a Client's email sets that Client to "active" with the supplied membership
\* and user identifiers and changes no other Client; when the email matches
\* no Client it is acknowledged and no row of the store is modified or added.
C13_PaymentNoRowOnUnknown ==
  [][\A signature \in SignatureInputs, data \in DataObjects :
       (WhopWebhook(signature, "payment.succeeded", data) /\ ~SecretRejects(signature))
       => /\ res'.status = 200
          /\ Activated(data, data.membership)
          /\ Matching(data) = {} => UNCHANGED store]_vars

\* C13 amended: as above, but when the email matches no Client the only row
\* added is the EmailLogEntry of the payment notification (which every
\* accepted payment.succeeded webhook appends), no other row of the store
\* being modified or added.
C13_PaymentActivatesClient ==
  [][\A signature \in SignatureInputs, data \in DataObjects :
       (WhopWebhook(signature, "payment.succeeded", data) /\ ~SecretRejects(signature))
       => /\ res'.status = 200
          /\ Activated(data, data.membership)
          /\ Appended(email_log, email_log')
          /\ email_log'[Len(email_log')].subject = "New Payment"
          /\ UNCHANGED <<subscribers, trial_signups, leads, lead_activity,
                         capture_pages>>]_vars

\* the first client, churned by a cancellation, was set active again by a
\* payment carrying both identifiers; the second client is as created
C13_Witness ==
  /\ res.op = "whop" /\ res.status = 200
  /\ Len(email_log) = 2
  /\ email_log[1].subject = "Membership Cancelled"
  /\ email_log[2].subject = "New Payment"
  /\ clients[1].status = "active"
  /\ clients[1].whop_membership_id = Str("mem_1")
  /\ clients[1].whop_user_id = Str("usr_1")
  /\ clients[2].whop_membership_id = Null

(* ---- C14 ---- *)
\* C14: with a (non-empty) billing secret configured, every billing webhook
\* whose signature header differs from it or is absent is answered 401,
\* changes no Client row and appends nothing to the email log, whatever its
\* action; with no secret configured no request is answered 401.
C14_SecretCheck ==
  [][\A signature \in SignatureInputs :
       (\E action \in ActionInputs, data \in DataInputs :
          WhopWebhook(signature, action, data))
       => IF Truthy(env.WHOP_WEBHOOK_SECRET)
          THEN signature # env.WHOP_WEBHOOK_SECRET
               => /\ res'.status = 401
                  /\ clients' = clients
                  /\ email_log' = email_log
          ELSE res'.status # 401]_vars

\* a request was rejected under a configured secret after another one, with
\* the right signature, had churned the first client
C14_Witness ==
  /\ res.op = "whop" /\ res.status = 401
  /\ env.WHOP_WEBHOOK_SECRET = Str("s3cret")
  /\ clients[1].status = "churned"

(* ---- C15 ---- *)
\* C15: every billing webhook that passes the secret check is answered with
\* the acknowledgment {received: true} (status 200), whatever its action and
\* payload.
C15_AlwaysAcknowledged ==
  [][\A signature \in SignatureInputs, action \in ActionInputs, data \in DataInputs :
       (WhopWebhook(signature, action, data) /\ ~SecretRejects(signature))
       => res' = [op |-> "whop", status |-> 200, id |-> 0]]_vars

(* ---- C16 ---- *)
\* C16: the Client rows after a billing webhook are given by its action:
\* membership.went_valid sets the matching Client "active" with the
\* identifiers, membership.went_invalid sets only the status of the matching
\* Client, to "churned", payment.failed and every unrecognised action change
\* no Client row, and an unrecognised action appends nothing to the email
\* log; a webhook that is not acknowledged changes no Client row.
C16_ClientEffectByAction ==
  [][\A action \in ActionInputs \ {"payment.succeeded"}, data \in DataInputs :
       (\E signature \in SignatureInputs : WhopWebhook(signature, action, data))
       => IF res'.status # 200 THEN clients' = clients
          ELSE /\ action = "membership.went_valid" => Activated(data, data.id)
               /\ action = "membership.went_invalid" =>
                    /\ Len(clients') = Len(clients)
                    /\ \A i \in 1..Len(clients) :
                         clients'[i] = IF i \in Matching(data)
                                       THEN [clients[i] EXCEPT !.status = "churned"]
                                       ELSE clients[i]
               /\ action \notin WhopActions =>
                    clients' = clients /\ email_log' = email_log
               /\ action = "payment.failed" => clients' = clients]_vars

\* the first client holds the identifiers of a membership.went_valid webhook
\* and was then churned by a cancellation; the second client is as created
C16_Witness ==
  /\ res.op = "whop" /\ res.status = 200
  /\ clients[1].status = "churned"
  /\ clients[1].whop_membership_id = Str("mem_2")
  /\ clients[2].status = "active"
  /\ clients[2].whop_membership_id = Null
  /\ email_log # <<>> /\ email_log[Len(email_log)].subject = "Membership Cancelled"

(* ---- C17 ---- *)
\* C17: a Lead-Ads verification GET is answered 200 with the challenge as its
\* body exactly when its mode is "subscribe" and its verify token equals the
\* webhook secret the server is configured with; in every other case it is
\* answered 403 and the body is not the challenge.
C17_VerifyEchoesOnMatch ==
  [][\A mode \in ModeInputs, token \in TokenInputs, challenge \in Field("c1") :
       FacebookVerify(mode, token, challenge)
       => IF /\ mode = Str("subscribe")
             /\ env.WEBHOOK_SECRET # Undefined
             /\ token = env.WEBHOOK_SECRET
          THEN res'.status = 200 /\ res'.body = challenge
          ELSE res'.status = 403 /\ res'.body # challenge]_vars

(* ---- C18 ---- *)
\* C18: creating a capture page with a slug that a page already has is
\* answered with an error (500) and leaves the table of pages as it was: the
\* existing page keeps its Client binding, title, counters and status, and
\* exactly one page has that slug.
C18_DuplicateSlugRejected ==
  [][res'.op = "create-capture-page" =>
     \A slug \in CapturePageInputs \ {Undefined} :
       (/\ HasSlug(capture_pages, slug)
        /\ \E client_id \in 0..(Len(clients) + 1), title \in Field("Quotes") :
             CreateCapturePage(client_id, slug, title))
       => /\ res'.status = 500
          /\ capture_pages' = capture_pages
          /\ Cardinality({i \in 1..Len(capture_pages') :
                            capture_pages'[i].slug = slug}) = 1]_vars

\* a creation was refused while both slugs were taken, the first page being
\* bound to the client and having counted a submission
C18_Witness ==
  /\ res.op = "create-capture-page" /\ res.status = 500
  /\ Len(capture_pages) = 2
  /\ capture_pages[1].client_id = 1
  /\ capture_pages[1].submissions = 1
  /\ capture_pages[2].client_id = 0

(* ---- C19 ---- *)
\* C19: every call of sendEmail appends exactly one EmailLogEntry, for the
\* recipient and subject of the call, with status "sent" when the transport
\* accepted the message and "failed" when it did not; the call returns (it
\* never throws), and returns null when the transport failed.
C19_SendLogsOnce ==
  [][\A to \in RecipientInputs, subject \in SubjectInputs, ok \in BOOLEAN :
       SendEmailCall(to, subject, ok)
       => /\ Appended(email_log, email_log')
          /\ email_log'[Len(email_log')].recipient = to
          /\ email_log'[Len(email_log')].subject = subject
          /\ email_log'[Len(email_log')].status = IF ok THEN "sent" ELSE "failed"
          /\ res'.returned \in {"info", "null"}
          /\ ~ok => res'.returned = "null"]_vars

\* a send the transport refused, after one it accepted: two log rows, the
\* second "failed", and null returned
C19_Witness ==
  /\ res.op = "sendEmail" /\ res.returned = "null"
  /\ Len(email_log) = 2
  /\ email_log[1].status = "sent"
  /\ email_log[2].status = "failed"

(* ---- C20 ---- *)
\* the payload that holds only the members the template uses: `type` is a
\* member of the internal notification's payload alone
PayloadOf(name) ==
  IF name = "internal_notification" THEN [type |-> Str("New Lead")]
  ELSE [type |-> Undefined]

\* C20: getEmailTemplate returns a template for each of the four names when
\* given the payload holding only the members that template uses, and returns
\* nothing, without throwing, for every other name and every payload.
C20_TemplateForEachName ==
  [][\A type \in TemplateInputs, data \in PayloadInputs :
       GetEmailTemplateCall(type, data)
       => IF type \in {"trial_welcome", "new_lead_notification",
                       "internal_notification", "weekly_report"}
          THEN data = PayloadOf(type) => res'.returned = "ok"
          ELSE res'.returned = "null"]_vars

(* ---- C21 ---- *)
\* the clients created from the trial
ClientsOf(table, trial) == {c \in 1..Len(table) : table[c].trial_id = trial}

\* C21: a TrialSignup has status "converted" exactly when a Client row whose
\* trial_id references it exists; a successful client creation from a trial
\* marks that trial (and no other) "converted", and a client creation that
\* fails leaves every trial's status as it was.
C21_ConvertedIffClient ==
  [][/\ \A t \in 1..Len(trial_signups') :
          trial_signups'[t].status = "converted" <=> ClientsOf(clients', t) # {}
     /\ res'.op = "create-client" =>
          IF res'.status = 200
          THEN /\ Appended(clients, clients')
               /\ \A t \in 1..Len(trial_signups) :
                    trial_signups'[t] =
                      IF clients'[Len(clients')].trial_id = t
                      THEN [trial_signups[t] EXCEPT !.status = "converted"]
                      ELSE trial_signups[t]
          ELSE clients' = clients /\ trial_signups' = trial_signups]_vars

\* of two trials the second was converted by a client creation; a further
\* creation, from the first trial, failed and left that trial "new"
C21_Witness ==
  /\ res.op = "create-client" /\ res.status = 500
  /\ Len(trial_signups) = 2 /\ Len(clients) = 1
  /\ clients[1].trial_id = 2
  /\ trial_signups[2].status = "converted"
  /\ trial_signups[1].status = "new"

(* ---- C27 ---- *)
\* C27: on a server with no webhook secret configured, every Lead-Ads
\* verification GET is answered 403 and none echoes the challenge, the
\* request with mode "subscribe" and no verify token included.
C27_NoSecretNeverEchoes ==
  [][env.WEBHOOK_SECRET = Undefined =>
     \A mode \in ModeInputs, token \in TokenInputs, challenge \in Field("c1") :
       FacebookVerify(mode, token, challenge)
       => res'.status = 403 /\ res'.body # challenge]_vars

(* ---- C22 ---- *)
\* the store after the lead-capture logic has taken the lead once: one Lead
\* row, the counter of its page, one "created" activity, and the email log
\* grown by the notifications only
CapturedOnce(lead) ==
  /\ leads' = Append(leads, NewLead(PageClient(lead.capture_page), lead.capture_page,
                                    lead.name, lead.phone, lead.source))
  /\ capture_pages' = IF Truthy(lead.capture_page)
                      THEN BumpSubmissions(capture_pages, lead.capture_page)
                      ELSE capture_pages
  /\ lead_activity' = Append(lead_activity,
         CreatedActivity(Len(leads) + 1, lead.capture_page, lead.source))
  /\ \E k \in 0..2 : Len(email_log') = Len(email_log) + k
                      /\ SubSeq(email_log', 1, Len(email_log)) = email_log
  /\ UNCHANGED <<subscribers, trial_signups, clients>>

UniqueEmails(table) ==
  \A i \in 1..Len(table), j \in 1..Len(table) :
    table[i].email = table[j].email => i = j
UniqueTokens(table) ==
  \A i \in 1..Len(table), j \in 1..Len(table) :
    table[i].dashboard_token = table[j].dashboard_token => i = j
UniqueSlugs(table) ==
  \A i \in 1..Len(table), j \in 1..Len(table) :
    table[i].slug = table[j].slug => i = j

\* C23: in every reachable state no two Subscribers share an email, no two
\* TrialSignups share an email, no two Clients share an email or a dashboard
\* token, and no two CapturePages share a slug.
C23_UniqueKeys ==
  /\ UniqueEmails(subscribers)
  /\ UniqueEmails(trial_signups)
  /\ UniqueEmails(clients)
  /\ UniqueTokens(clients)
  /\ UniqueSlugs(capture_pages)

\* every table holds two rows, and a client creation has just been refused
C23_Witness ==
  /\ Len(subscribers) = 2 /\ Len(trial_signups) = 2
  /\ Len(clients) = 2 /\ Len(capture_pages) = 2
  /\ res.op = "create-client" /\ res.status = 500

(* ---- C24 ---- *)
\* C24: a request rejected at validation or lookup changes nothing. Subscribe
\* without an email, trial signup without first name, email or phone, and lead
\* capture without name or phone are answered 400; a status update for an
\* unknown lead id and a dashboard read for an unknown token are answered 404;
\* in each case no row is inserted or updated, no LeadActivity is written and
\* no email is attempted (the email log is as before).
C24_RejectedChangesNothing ==
  [][/\ res'.status \in {400, 404} => UNCHANGED store
     /\ res'.op = "subscribe" =>
          (Subscribe(<<>>, Undefined) => res'.status = 400)
     /\ res'.op = "trial-signup" =>
          \A firstName \in Field("Al"), email \in VisitorEmails, phone \in Field("555") :
            (/\ firstName = Undefined \/ email = <<>> \/ phone = Undefined
             /\ TrialSignup(firstName, Str("Ray"), Str("Acme"), email, phone,
                            Str("hvac"), Str("Edmonton"), Undefined))
            => res'.status = 400
     /\ res'.op = "leads" =>
          \A name \in Field("Sarah"), phone \in Field("555") :
            (/\ name = Undefined \/ phone = Undefined
             /\ LeadCapture(name, phone, Str("plumbing-calgary"), Undefined))
            => res'.status = 400
     /\ res'.op = "lead-update" =>
          \A id \in 1..(Len(leads) + 1) :
            (/\ id \notin 1..Len(leads)
             /\ LeadUpdate(id, Str("booked"), Undefined, Undefined, Undefined,
                           Undefined))
            => res'.status = 404
     /\ res'.op = "dashboard" =>
          \A token \in 1..(Len(clients) + 1) :
            (token \notin 1..Len(clients) /\ Dashboard(token)) => res'.status = 404]_vars

\* a status update for a lead id that does not exist has been answered 404 in
\* a store that holds a subscriber, a lead with its activity, and a log row
C24_Witness ==
  /\ res.op = "lead-update" /\ res.status = 404 /\ res.id = Len(leads) + 1
  /\ Len(subscribers) = 1 /\ Len(leads) = 1 /\ Len(lead_activity) = 1
  /\ Len(email_log) = 1

(* ---- C25 ---- *)
\* C25: an ingestion request (subscribe, trial signup, lead capture) that is
\* answered with an error status (4xx or 5xx) leaves the store as it was
\* before the request, so that repeating the identical request cannot meet a
\* conflict the failed attempt itself caused.
C25_FailedIngestionLeavesStore ==
  [][(res'.op \in {"subscribe", "trial-signup", "leads"} /\ res'.status >= 400)
     => UNCHANGED store]_vars

(* ---- C26 ---- *)
\* the "created" activities of the lead
CreatedRows(log, l) ==
  {a \in 1..Len(log) : log[a].lead_id = l /\ log[a].action = "created"}
\* the leads l of the table, from row `from` on, that carry the slug
LeadsWithSlug(table, from, slug) ==
  {l \in from..Len(table) : table[l].capture_page = slug}

\* C26 as stated: in every state a request can observe, each Lead has exactly
\* one "created" LeadActivity and each CapturePage's submission counter equals
\* its value at creation (0) plus the number of Leads captured with that
\* page's slug.
C26_CounterCountsAllLeads ==
  /\ \A l \in 1..Len(leads) : Cardinality(CreatedRows(lead_activity, l)) = 1
  /\ \A p \in 1..Len(capture_pages) :
       capture_pages[p].submissions =
         Cardinality(LeadsWithSlug(leads, 1, capture_pages[p].slug))

\* C26 amended: under any interleaving of the captures at their awaits, after
\* every step each Lead has exactly one "created" LeadActivity, and every step
\* leaves each CapturePage's submission counter at its value before the step
\* (0 for a page the step creates) plus the number of Leads the step captured
\* with that page's slug: the counter is its value at creation plus the
\* number of Leads captured with the slug since the page exists.
C26_CounterCountsLeadsSincePage ==
  [][/\ \A l \in 1..Len(leads') : Cardinality(CreatedRows(lead_activity', l)) = 1
     /\ \A p \in 1..Len(capture_pages') :
          capture_pages'[p].submissions =
            (IF p <= Len(capture_pages) THEN capture_pages[p].submissions ELSE 0)
            + Cardinality(LeadsWithSlug(leads', Len(leads) + 1,
                                        capture_pages'[p].slug))]_vars

\* two captures wait for their sends at once; the page has counted the lead
\* captured with its slug since it exists and not the one captured before
C26_Witness ==
  /\ Cardinality(awaiting) >= 2
  /\ Len(capture_pages) = 1 /\ capture_pages[1].submissions = 1
  /\ Len(leads) = 3 /\ Len(lead_activity) = 3
  /\ leads[1].capture_page = capture_pages[1].slug
  /\ leads[3].capture_page = capture_pages[1].slug
  /\ leads[2].capture_page = Null

(* ---- C28 ---- *)
\* what a client owns: its row and the Leads whose client_id it is
OwnLeadIds(c) == {l \in 1..Len(leads) : leads[l].client_id = c}
OwnView(c) == [client |-> clients[c], leads |-> [l \in OwnLeadIds(c) |-> leads[l]]]

\* C28: a dashboard read depends only on the Client owning the token and on
\* that Client's own Leads: two store states (at the same time of reading)
\* that agree on the Client row and on the Leads whose client_id is that Client
\* give the same response (counts, revenue, close rate, recent leads),
\* however the other Leads differ; the response is computed from that Client;
\* recent leads holds at most 20 leads, all the Client's own, newest first,
\* and no lead left out is newer than one listed.
C28_DashboardOwnLeadsOnly ==
  [][/\ (now' = now /\ store' # store) =>
          \A c \in 1..Len(clients) :
            OwnView(c)' = OwnView(c) => DashboardBody(c)' = DashboardBody(c)
     /\ (res'.op = "dashboard" /\ res'.status = 200) =>
          LET c == TokenClient(res'.id)
              recent == res'.recentLeads
              listed == {recent[k].id : k \in 1..Len(recent)}
          IN /\ clients[c].dashboard_token = res'.id
             /\ res'.stats = DashboardBody(c).stats
             /\ res'.stats.totalLeads = Cardinality(OwnLeadIds(c))
             /\ Len(recent) <= 20
             /\ Len(recent) = 20 \/ Len(recent) = Cardinality(OwnLeadIds(c))
             /\ Cardinality(listed) = Len(recent)
             /\ listed \subseteq OwnLeadIds(c)
             /\ \A k \in 1..Len(recent) :
                  /\ recent[k].createdAt = leads[recent[k].id].created_at
                  /\ recent[k].status = leads[recent[k].id].status
                  /\ recent[k].jobValue = leads[recent[k].id].job_value
                  /\ k > 1 => recent[k - 1].createdAt >= recent[k].createdAt
             /\ \A l \in OwnLeadIds(c) \ listed, k \in 1..Len(recent) :
                  leads[l].created_at <= recent[k].createdAt]_vars

\* the first client, with 21 leads, reads its dashboard after a lead of the
\* second client was booked for 500: 21 leads, none booked, no revenue, and
\* the 20 newest leads listed
C28_Witness ==
  /\ res.op = "dashboard" /\ res.status = 200 /\ res.id = 1
  /\ Len(leads) = 23
  /\ leads[22].client_id = 2 /\ leads[22].job_value = Num(500)
  /\ res.stats.totalLeads = 21 /\ res.stats.bookedLeads = 0
  /\ res.stats.totalRevenue = 0
  /\ Len(res.recentLeads) = 20
  /\ res.recentLeads[1].id = 20 /\ res.recentLeads[20].id = 3
====
